---- MODULE Spec2Model ----
(***************************************************************************)
(* Model of the per-tab session state of the browser: display/tab.go (tab, *)
(* tabHistory, the key handler installed by makeNewTab, addToHistory,      *)
(* pageUp, pageDown, hasContent, saveScroll, applyScroll, saveBottomBar,    *)
(* applyBottomBar) and structs.Page with its Size.                         *)
(*                                                                         *)
(* Go slices are indexed from 0 and TLA+ sequences from 1: At(s, i) is the *)
(* Go expression s[i].  cview region ids are modelled as sequences of      *)
(* one-character strings so that strconv.Atoi and strconv.Itoa are real    *)
(* conversions; URLs, link targets and bar texts are TLA+ strings.         *)
(***************************************************************************)
EXTENDS Integers, Sequences, FiniteSets, TLC

VARIABLES
    tabs,       \* the tabs slice: tab index -> tab struct
    curTab,     \* index of the tab in focus
    bottomBar,  \* the one status bar shared by every tab: label and text
    followed,   \* the followLink calls made while handling the last event
    panicked,   \* TRUE once a handler has panicked (the program is gone)
    lastOp,     \* history variable: the operation of the last step
    prev,       \* history variable: what that operation started from
    pushLog,    \* history variable: URLs pushed since the tab was made
    leftBar,    \* history variable: the bar as it was when a tab lost focus
    termH,      \* height of the terminal
    view,       \* scroll offset of the view of the tab in focus
    heap,       \* the Page objects: address -> scroll fields
    pagePtr,    \* t.page of the tab in focus: an address in heap
    captured,   \* history variable: what the last saveScroll of a Page read
    subject,    \* the tab a query (hasContent, Size) is made of
    result      \* what the last query returned

tabVars == <<tabs, curTab, bottomBar, followed, panicked, pushLog, leftBar>>

scrollVars == <<termH, view, heap, pagePtr, captured>>

queryVars == <<subject, result>>

vars == <<tabVars, scrollVars, queryVars, lastOp, prev>>

----------------------------------------------------------------------------
(* Bounds *)

MaxLinks == 3

MaxHist == 3

MaxTermH == 8

MaxRow == 3

MaxCol == 1

\* Indexes of the tabs slice: the tab in focus and one that is not.
Tabs == {0, 1}

\* URLs that get loaded.
URLs == {"A", "B", "C", "D"}

----------------------------------------------------------------------------
(* Values *)

modeOff == 0

modeLinkSelect == 1

KeyEnter == "KeyEnter"

KeyEsc == "KeyEsc"

KeyTab == "KeyTab"

KeyBacktab == "KeyBacktab"

KeyOther == "KeyOther"

Keys == {KeyEnter, KeyEsc, KeyTab, KeyBacktab, KeyOther}

LinkLabel == "[::b]Link: [::-]"

\* The empty region id, Go's "".
EmptyID == <<>>

\* Go's s[i] for a slice s.
At(s, i) == s[i + 1]

InRange(s, i) == i >= 0 /\ i < Len(s)

----------------------------------------------------------------------------
(* strconv *)

DigitChars == <<"0", "1", "2", "3", "4", "5", "6", "7", "8", "9">>

IsDigit(c) == \E d \in 1..10 : DigitChars[d] = c

DigitVal(c) == (CHOOSE d \in 1..10 : DigitChars[d] = c) - 1

\* Go's int is 64 bits wide on the builds considered here.  TLC's integers
\* are narrower, so an int that comes out of strconv.Atoi is held in two's
\* complement as four 16-bit limbs, the least significant first.
Limb == 65536

Zero64 == <<0, 0, 0, 0>>

MaxUint64 == <<65535, 65535, 65535, 65535>>

\* math.MaxInt64 = 9223372036854775807
MaxInt64 == <<65535, 65535, 65535, 32767>>

\* math.MinInt64 = -9223372036854775808
MinInt64 == <<0, 0, 0, 32768>>

\* x + y on int: the carry out of the top limb is lost (wraparound).
Add64(x, y) ==
    LET s1 == x[1] + y[1]
        s2 == x[2] + y[2] + (s1 \div Limb)
        s3 == x[3] + y[3] + (s2 \div Limb)
        s4 == x[4] + y[4] + (s3 \div Limb)
    IN  <<s1 % Limb, s2 % Limb, s3 % Limb, s4 % Limb>>

\* -x on int; -MinInt64 is MinInt64.
Neg64(x) == Add64([k \in 1..4 |-> 65535 - x[k]], <<1, 0, 0, 0>>)

\* The int of an integer n with |n| < 2^31.
Int64(n) ==
    IF n >= 0 THEN <<n % Limb, n \div Limb, 0, 0>>
    ELSE Neg64(<<(0 - n) % Limb, (0 - n) \div Limb, 0, 0>>)

IsNeg64(x) == x[4] >= 32768

\* The limbs of x read as an unsigned number, modulo n (0 < n < 2^15).
UMod64(x, n) ==
    LET r4 == x[4] % n
        r3 == (r4 * Limb + x[3]) % n
        r2 == (r3 * Limb + x[2]) % n
    IN  (r2 * Limb + x[1]) % n

\* x % n on int, for n > 0: Go's % truncates toward zero, so the result has
\* the sign of x.  Its magnitude is below n, so it is given as an integer.
GoMod64(x, n) == IF IsNeg64(x) THEN 0 - UMod64(Neg64(x), n) ELSE UMod64(x, n)

\* 0 <= x < len(s), for an int x.
InRange64(s, x) == x[2] = 0 /\ x[3] = 0 /\ x[4] = 0 /\ x[1] < Len(s)

\* s[x] for an int x within range.
At64(s, x) == At(s, x[1])

\* n*10 + d on uint64, and whether it overflowed.
MulAdd64(x, d) ==
    LET p1 == x[1] * 10 + d
        p2 == x[2] * 10 + (p1 \div Limb)
        p3 == x[3] * 10 + (p2 \div Limb)
        p4 == x[4] * 10 + (p3 \div Limb)
    IN  [val |-> <<p1 % Limb, p2 % Limb, p3 % Limb, p4 % Limb>>, over |-> p4 >= Limb]

ErrNil == "nil"

ErrSyntax == "invalid syntax"

ErrRange == "value out of range"

\* strconv.ParseUint(s, 10, 64) from the k-th character on, n being the
\* value of the characters before it: a character that is no digit is a
\* syntax error, a digit that takes the value past 64 bits a range error,
\* whichever comes first.
RECURSIVE ParseUint(_, _, _)
ParseUint(s, k, n) ==
    IF k > Len(s) THEN [val |-> n, err |-> ErrNil]
    ELSE IF ~IsDigit(s[k]) THEN [val |-> Zero64, err |-> ErrSyntax]
    ELSE LET m == MulAdd64(n, DigitVal(s[k]))
         IN  IF m.over THEN [val |-> MaxUint64, err |-> ErrRange]
             ELSE ParseUint(s, k + 1, m.val)

\* strconv.ParseInt(s, 10, 0): an optional sign and decimal digits.  A value
\* beyond int comes back as the nearest int, with a range error.
ParseInt(s) ==
    LET neg    == s # <<>> /\ s[1] = "-"
        digits == IF s # <<>> /\ s[1] \in {"+", "-"} THEN Tail(s) ELSE s
        un     == IF digits = <<>> THEN [val |-> Zero64, err |-> ErrSyntax]
                  ELSE ParseUint(digits, 1, Zero64)
    IN  IF un.err = ErrSyntax THEN [val |-> Zero64, err |-> ErrSyntax]
        ELSE IF ~neg /\ IsNeg64(un.val) THEN [val |-> MaxInt64, err |-> ErrRange]
        ELSE IF neg /\ IsNeg64(un.val) /\ un.val # MinInt64
        THEN [val |-> MinInt64, err |-> ErrRange]
        ELSE [val |-> IF neg THEN Neg64(un.val) ELSE un.val, err |-> un.err]

\* strconv.Atoi with its error dropped (linkN, _ := ...): the int of the
\* digits, 0 when s is no number, and MaxInt64 or MinInt64 when the number
\* is beyond int.
Atoi(s) == ParseInt(s).val

RECURSIVE ItoaNat(_)
ItoaNat(n) ==
    IF n < 10 THEN <<DigitChars[n + 1]>>
    ELSE ItoaNat(n \div 10) \o <<DigitChars[(n % 10) + 1]>>

\* strconv.Itoa
Itoa(n) == IF n < 0 THEN <<"-">> \o ItoaNat(0 - n) ELSE ItoaNat(n)

----------------------------------------------------------------------------
(* Pages *)

\* The zero structs.Page that makeNewTab installs.
EmptyPage == [Url |-> "", Links |-> <<>>]

LinkTarget(i) == "link" \o ToString(i)

\* A displayed page with n links.
Doc(n) == [Url |-> "gemini://host/" \o ToString(n),
           Links |-> [i \in 1..n |-> LinkTarget(i - 1)]]

Docs == {EmptyPage} \cup {Doc(n) : n \in 0..MaxLinks}

\* The addresses of the Page objects: the tab's page and one more that the
\* cache holds.
PageAddrs == {0, 1}

\* captured of a Page that saveScroll has not been called on.
NotSaved == [saved |-> FALSE, row |-> 0, col |-> 0]

----------------------------------------------------------------------------
(* tab *)

makeNewTab ==
    [page       |-> EmptyPage,
     highlights |-> {},
     scrollToHighlights |-> FALSE,
     mode       |-> modeOff,
     history    |-> [urls |-> <<>>, pos |-> 0],
     selected   |-> "",
     selectedID |-> EmptyID,
     barLabel   |-> "",
     barText    |-> ""]

\* addToHistory without the truncation of the forward branch.
addToHistory_NoTruncate(h, u) == [urls |-> Append(h.urls, u), pos |-> h.pos + 1]

\* t.history after t.addToHistory(u)
addToHistory(h, u) ==
    LET cut == IF h.pos < Len(h.urls) - 1
               THEN SubSeq(h.urls, 1, h.pos + 1)
               ELSE h.urls
    IN [urls |-> Append(cut, u), pos |-> h.pos + 1]

\* History back and forward moves: one step, no-op at either bound.
histBack(h) == IF h.pos <= 0 THEN h ELSE [h EXCEPT !.pos = h.pos - 1]

histForward(h) ==
    IF h.pos >= Len(h.urls) - 1 THEN h ELSE [h EXCEPT !.pos = h.pos + 1]

\* t after t.saveBottomBar()
saveBottomBar(t, bar) == [t EXCEPT !.barLabel = bar.label, !.barText = bar.text]

\* applyBottomBar that restores the label into the text as well.
applyBottomBar_LabelAsText(t) == [label |-> t.barLabel, text |-> t.barLabel]

\* bottomBar after t.applyBottomBar()
applyBottomBar(t) == [label |-> t.barLabel, text |-> t.barText]

\* view.Highlight(ids...): the highlighted set becomes the non-empty ids.
Highlight(ids) == {id \in ids : id # EmptyID}

\* t after t.view.ScrollToHighlight(): a view with a highlight notes that it
\* is to scroll to it; the offset moves when the view is next drawn.
ScrollToHighlight(t) ==
    IF t.highlights = {} THEN t ELSE [t EXCEPT !.scrollToHighlights = TRUE]

\* followLink(tab, prev, next): the call as the navigation layer receives
\* it, with the mode tabs[tab] has when the call is made.
followLink(calls, tab, t, base, target) ==
    Append(calls, [tab |-> tab, base |-> base, target |-> target, mode |-> t.mode])

----------------------------------------------------------------------------
(* Queries: hasContent and Page.Size *)

\* A structs.Page{} with the fields the queries read, and two they do not.
ZeroPage ==
    [Url |-> "", Raw |-> "", Content |-> "", Selected |-> "", SelectedID |-> "",
     Links |-> <<>>, Favicon |-> "", RawMediatype |-> ""]

\* strings.HasPrefix
HasPrefix(str, prefix) ==
    /\ Len(str) >= Len(prefix)
    /\ SubSeq(str, 1, Len(prefix)) = prefix

\* hasContent without the test for the "about:" scheme.
hasContent_NoAbout(t) ==
    IF ~t.hasPage \/ ~t.hasView THEN FALSE
    ELSE IF t.page.Url = "" THEN FALSE
    ELSE IF t.page.Content = "" THEN FALSE
    ELSE TRUE

\* t.hasContent(); hasPage and hasView say that t.page and t.view are not nil.
hasContent(t) ==
    IF ~t.hasPage \/ ~t.hasView THEN FALSE
    ELSE IF t.page.Url = "" THEN FALSE
    ELSE IF HasPrefix(t.page.Url, "about:") THEN FALSE
    ELSE IF t.page.Content = "" THEN FALSE
    ELSE TRUE

\* for i := range p.Links { n += len(p.Links[i]) }, from index i on
RECURSIVE sizeLoop(_, _, _)
sizeLoop(links, i, n) ==
    IF i >= Len(links) THEN n ELSE sizeLoop(links, i + 1, n + Len(At(links, i)))

\* Size that leaves SelectedID out of the sum.
Size_NoSelectedID(p) ==
    sizeLoop(p.Links, 0, Len(p.Raw) + Len(p.Content) + Len(p.Url) + Len(p.Selected))

\* p.Size()
Size(p) ==
    sizeLoop(p.Links, 0,
             Len(p.Raw) + Len(p.Content) + Len(p.Url) + Len(p.Selected) + Len(p.SelectedID))

----------------------------------------------------------------------------
(* Scrolling *)

\* view.ScrollTo(row, col): the offset the view is asked to take.
ScrollTo(row, col) == [row |-> row, col |-> col]

\* Go's integer division truncates toward zero.  Only used with b > 0.
GoDiv(a, b) == IF a >= 0 THEN a \div b ELSE 0 - ((0 - a) \div b)

\* the view after t.pageUp(), with terminal height h
pageUp(v, h) == ScrollTo(v.row - GoDiv(h, 4) * 3, v.col)

\* the view after t.pageDown(), with terminal height h
pageDown(v, h) == ScrollTo(v.row + GoDiv(h, 4) * 3, v.col)

\* the Page objects after t.saveScroll(), t.page being the address ptr
saveScroll(hp, ptr, v) == [hp EXCEPT ![ptr] = [Row |-> v.row, Column |-> v.col]]

\* applyScroll that restores the row only.
applyScroll_RowOnly(hp, ptr) == ScrollTo(hp[ptr].Row, 0)

\* the view after t.applyScroll()
applyScroll(hp, ptr) == ScrollTo(hp[ptr].Row, hp[ptr].Column)

\* What the cache reads of the Page it holds at address a: the cache and
\* the tab hold the same pointer.
cachedPage(hp, a) == hp[a]

----------------------------------------------------------------------------
(* The key handler that makeNewTab installs with view.SetDoneFunc *)

\* What a run of the handler body leaves behind: the tab, the status bar,
\* the followLink calls made, and whether the body panicked.
Out(t, bar, calls, pan) == [t |-> t, bar |-> bar, calls |-> calls, panicked |-> pan]

\* The Esc branch without view.Highlight("").
escBranch_KeepHighlight(t, bar, key) ==
    IF key = KeyEsc
    THEN [t   |-> [t EXCEPT !.mode = modeOff],
          bar |-> [label |-> "", text |-> t.page.Url]]
    ELSE [t |-> t, bar |-> bar]

\* if key == tcell.KeyEsc { ... }
escBranch(t, bar, key) ==
    IF key = KeyEsc
    THEN [t   |-> [t EXCEPT !.highlights = Highlight({EmptyID}), !.mode = modeOff],
          bar |-> [label |-> "", text |-> t.page.Url]]
    ELSE [t |-> t, bar |-> bar]

\* view.GetHighlights(): the highlighted ids, in no particular order.
GetHighlights(t) == t.highlights

\* currentSelection as the handler reads it, after the Esc branch.
currentSelection(t, bar, key) == GetHighlights(escBranch(t, bar, key).t)

\* clickLink that ignores which link is highlighted and follows Links[0].
clickLink_FirstLink(t, bar, tab, first) ==
    LET bar1 == [bar EXCEPT !.label = ""]
        t1   == [t EXCEPT !.mode = modeOff]
    IN  Out(t1, bar1, followLink(<<>>, tab, t1, t1.page.Url, At(t1.page.Links, 0)), FALSE)

\* Enter with a selection: "click" the link.  `first` is currentSelection[0].
clickLink(t, bar, tab, first) ==
    LET bar1  == [bar EXCEPT !.label = ""]
        t1    == [t EXCEPT !.mode = modeOff]
        linkN == Atoi(first)
    IN  IF InRange64(t1.page.Links, linkN)
        THEN Out(t1, bar1,
                 followLink(<<>>, tab, t1, t1.page.Url, At64(t1.page.Links, linkN)),
                 FALSE)
        ELSE Out(t1, bar1, <<>>, TRUE)       \* index out of range

\* startSelection that does not record selectedID.
startSelection_NoID(t, bar) ==
    LET t1   == ScrollToHighlight([t EXCEPT !.highlights = Highlight({<<"0">>})])
        bar1 == [bar EXCEPT !.label = LinkLabel]
    IN  IF InRange(t1.page.Links, 0)
        THEN Out([t1 EXCEPT !.selected = At(t1.page.Links, 0)],
                 [bar1 EXCEPT !.text = At(t1.page.Links, 0)],
                 <<>>, FALSE)
        ELSE Out(t1, bar1, <<>>, TRUE)

\* Enter without a selection (or without links): highlight region "0" and
\* ask the view to scroll to it.
startSelection(t, bar) ==
    LET t1   == ScrollToHighlight([t EXCEPT !.highlights = Highlight({<<"0">>})])
        bar1 == [bar EXCEPT !.label = LinkLabel]
    IN  IF InRange(t1.page.Links, 0)
        THEN Out([t1 EXCEPT !.selected = At(t1.page.Links, 0), !.selectedID = <<"0">>],
                 [bar1 EXCEPT !.text = At(t1.page.Links, 0)],
                 <<>>, FALSE)
        ELSE Out(t1, bar1, <<>>, TRUE)       \* Links[0] of an empty slice

\* nextIndex without the wraparound.
nextIndex_NoWrap(index, numSelections, key) ==
    IF key = KeyTab
    THEN GoMod64(index, numSelections) + 1
    ELSE GoMod64(index, numSelections) - 1

\* The index Tab and Backtab move to, from the int index.
nextIndex(index, numSelections, key) ==
    IF key = KeyTab
    THEN GoMod64(Add64(index, Int64(1)), numSelections)
    ELSE GoMod64(Add64(Add64(index, Int64(0 - 1)), Int64(numSelections)), numSelections)

\* moveSelection without the return for keys other than Tab and Backtab.
moveSelection_NoReturn(t, bar, key, first) ==
    LET numSelections == Len(t.page.Links)
        index         == Atoi(first)
    IN  IF numSelections = 0
        THEN Out(t, bar, <<>>, TRUE)
        ELSE LET index1 == nextIndex(index, numSelections, key)
                 t1     == ScrollToHighlight(
                               [t EXCEPT !.highlights = Highlight({Itoa(index1)})])
                 bar1   == [bar EXCEPT !.label = LinkLabel]
             IN  IF InRange(t1.page.Links, index1)
                 THEN Out([t1 EXCEPT !.selected = At(t1.page.Links, index1),
                                     !.selectedID = first],
                          [bar1 EXCEPT !.text = At(t1.page.Links, index1)],
                          <<>>, FALSE)
                 ELSE Out(t1, bar1, <<>>, TRUE)

\* A key other than Enter while something is highlighted: Tab and Backtab
\* highlight the next and the previous link and ask the view to scroll to it.
moveSelection(t, bar, key, first) ==
    LET numSelections == Len(t.page.Links)
        index         == Atoi(first)
    IN  IF key \notin {KeyTab, KeyBacktab}
        THEN Out(t, bar, <<>>, FALSE)
        ELSE IF numSelections = 0
        THEN Out(t, bar, <<>>, TRUE)         \* integer divide by zero
        ELSE LET index1 == nextIndex(index, numSelections, key)
                 t1     == ScrollToHighlight(
                               [t EXCEPT !.highlights = Highlight({Itoa(index1)})])
                 bar1   == [bar EXCEPT !.label = LinkLabel]
             IN  IF InRange(t1.page.Links, index1)
                 THEN Out([t1 EXCEPT !.selected = At(t1.page.Links, index1),
                                     !.selectedID = first],
                          [bar1 EXCEPT !.text = At(t1.page.Links, index1)],
                          <<>>, FALSE)
                 ELSE Out(t1, bar1, <<>>, TRUE)  \* index out of range

\* The handler body for tabs[tab] = t, up to its return or panic.
doneFunc(t, bar, tab, key, first) ==
    LET e  == escBranch(t, bar, key)
        cs == GetHighlights(e.t)
    IN  IF key = KeyEnter
        THEN IF cs # {} /\ Len(e.t.page.Links) > 0
             THEN clickLink(e.t, e.bar, tab, first)
             ELSE startSelection(e.t, e.bar)
        ELSE IF cs # {}
        THEN moveSelection(e.t, e.bar, key, first)
        ELSE Out(e.t, e.bar, <<>>, FALSE)

----------------------------------------------------------------------------
(* Operations *)

NoOp == [name |-> "init", key |-> "", tab |-> 0]

\* The tab in focus, the bar, the other tabs and leftBar before a step.
Snapshot ==
    [t      |-> tabs[curTab],
     bar    |-> bottomBar,
     others |-> [o \in Tabs \ {curTab} |-> tabs[o]],
     left   |-> leftBar,
     view   |-> view,
     subject |-> subject]

\* leftBar of a tab that is in focus, or never lost it.
NotLeft == [label |-> "(in focus)", text |-> "(in focus)"]

NoPushes == [pushed |-> <<>>, moved |-> FALSE]

\* KeyEvent whose deferred call saves the bar as it was when the handler
\* was entered.
KeyEvent_SaveAtEntry(key) ==
    /\ ~panicked
    /\ LET tab == curTab
           cs  == currentSelection(tabs[tab], bottomBar, key)
       IN  \E first \in (IF cs = {} THEN {EmptyID} ELSE cs) :
               LET out == doneFunc(tabs[tab], bottomBar, tab, key, first)
               IN  /\ tabs' = [tabs EXCEPT ![tab] = saveBottomBar(out.t, bottomBar)]
                   /\ bottomBar' = out.bar
                   /\ followed' = out.calls
                   /\ panicked' = out.panicked
                   /\ lastOp' = [name |-> "key", key |-> key, tab |-> tab]
    /\ prev' = Snapshot
    /\ UNCHANGED <<curTab, pushLog, leftBar, scrollVars, queryVars>>

\* KeyEvent whose deferred call saves the bar into every tab.
KeyEvent_SaveAll(key) ==
    /\ ~panicked
    /\ LET tab == curTab
           cs  == currentSelection(tabs[tab], bottomBar, key)
       IN  \E first \in (IF cs = {} THEN {EmptyID} ELSE cs) :
               LET out == doneFunc(tabs[tab], bottomBar, tab, key, first)
               IN  /\ tabs' = [o \in Tabs |->
                                 saveBottomBar(IF o = tab THEN out.t ELSE tabs[o], out.bar)]
                   /\ bottomBar' = out.bar
                   /\ followed' = out.calls
                   /\ panicked' = out.panicked
                   /\ lastOp' = [name |-> "key", key |-> key, tab |-> tab]
    /\ prev' = Snapshot
    /\ UNCHANGED <<curTab, pushLog, leftBar, scrollVars, queryVars>>

\* One key delivered to the view of the tab in focus.  The deferred
\* saveBottomBar runs on every way out, a panic included.
KeyEvent(key) ==
    /\ ~panicked
    /\ LET tab == curTab
           cs  == currentSelection(tabs[tab], bottomBar, key)
       IN  \E first \in (IF cs = {} THEN {EmptyID} ELSE cs) :
               LET out == doneFunc(tabs[tab], bottomBar, tab, key, first)
               IN  /\ tabs' = [tabs EXCEPT ![tab] = saveBottomBar(out.t, out.bar)]
                   /\ bottomBar' = out.bar
                   /\ followed' = out.calls
                   /\ panicked' = out.panicked
                   /\ lastOp' = [name |-> "key", key |-> key, tab |-> tab]
    /\ prev' = Snapshot
    /\ UNCHANGED <<curTab, pushLog, leftBar, scrollVars, queryVars>>

\* Focus moves to another tab: the bar is saved into the tab that loses
\* focus and restored from the one that gains it.
SwitchTab(to) ==
    /\ ~panicked
    /\ to # curTab
    /\ tabs' = [tabs EXCEPT ![curTab] = saveBottomBar(tabs[curTab], bottomBar)]
    /\ bottomBar' = applyBottomBar(tabs[to])
    /\ curTab' = to
    /\ followed' = <<>>
    /\ lastOp' = [name |-> "switch", key |-> "", tab |-> to]
    /\ prev' = Snapshot
    /\ leftBar' = [leftBar EXCEPT ![curTab] = bottomBar, ![to] = NotLeft]
    /\ UNCHANGED <<panicked, pushLog, scrollVars, queryVars>>

\* A URL is loaded in the tab in focus and recorded in its history.
PushURL(u) ==
    /\ Len(addToHistory(tabs[curTab].history, u).urls) <= MaxHist
    /\ tabs' = [tabs EXCEPT ![curTab].history = addToHistory(@, u)]
    /\ pushLog' = IF pushLog.moved THEN pushLog
                  ELSE [pushLog EXCEPT !.pushed = Append(@, u)]
    /\ lastOp' = [name |-> "push", key |-> u, tab |-> curTab]
    /\ prev' = Snapshot
    /\ UNCHANGED <<curTab, bottomBar, followed, panicked, leftBar, scrollVars, queryVars>>

Back ==
    /\ tabs' = [tabs EXCEPT ![curTab].history = histBack(@)]
    /\ pushLog' = [pushLog EXCEPT !.moved = TRUE]
    /\ lastOp' = [name |-> "back", key |-> "", tab |-> curTab]
    /\ prev' = Snapshot
    /\ UNCHANGED <<curTab, bottomBar, followed, panicked, leftBar, scrollVars, queryVars>>

Forward ==
    /\ tabs' = [tabs EXCEPT ![curTab].history = histForward(@)]
    /\ pushLog' = [pushLog EXCEPT !.moved = TRUE]
    /\ lastOp' = [name |-> "forward", key |-> "", tab |-> curTab]
    /\ prev' = Snapshot
    /\ UNCHANGED <<curTab, bottomBar, followed, panicked, leftBar, scrollVars, queryVars>>

\* Steps that leave the tabs alone.
ScrollOp(name) ==
    /\ lastOp' = [name |-> name, key |-> "", tab |-> curTab]
    /\ prev' = Snapshot
    /\ UNCHANGED <<tabVars, queryVars>>

PageUp ==
    /\ view.row \in 0..MaxRow
    /\ view' = pageUp(view, termH)
    /\ ScrollOp("pageUp")
    /\ UNCHANGED <<termH, heap, pagePtr, captured>>

PageDown ==
    /\ view.row \in 0..MaxRow
    /\ view' = pageDown(view, termH)
    /\ ScrollOp("pageDown")
    /\ UNCHANGED <<termH, heap, pagePtr, captured>>

SaveScroll ==
    /\ heap' = saveScroll(heap, pagePtr, view)
    /\ captured' = [captured EXCEPT ![pagePtr] =
                         [saved |-> TRUE, row |-> view.row, col |-> view.col]]
    /\ ScrollOp("saveScroll")
    /\ UNCHANGED <<termH, view, pagePtr>>

ApplyScroll ==
    /\ view' = applyScroll(heap, pagePtr)
    /\ ScrollOp("applyScroll")
    /\ UNCHANGED <<termH, heap, pagePtr, captured>>

\* The user scrolls the view.
UserScroll(row, col) ==
    /\ view' = ScrollTo(row, col)
    /\ ScrollOp("scroll")
    /\ UNCHANGED <<termH, heap, pagePtr, captured>>

\* The view of the tab in focus is drawn after a request to scroll to its
\* highlight: the highlighted region, wherever the document has it, is
\* scrolled into view, and the request is spent.
Redraw ==
    /\ ~panicked
    /\ tabs[curTab].scrollToHighlights
    /\ tabs' = [tabs EXCEPT ![curTab].scrollToHighlights = FALSE]
    /\ view' \in IF tabs[curTab].highlights = {}
                 THEN {view}
                 ELSE [row : 0..MaxRow, col : 0..MaxCol]
    /\ lastOp' = [name |-> "redraw", key |-> "", tab |-> curTab]
    /\ prev' = Snapshot
    /\ UNCHANGED <<curTab, bottomBar, followed, panicked, pushLog, leftBar>>
    /\ UNCHANGED <<termH, heap, pagePtr, captured, queryVars>>

\* The tab displays the Page at another address (one the cache holds).
SetPage(a) ==
    /\ a # pagePtr
    /\ pagePtr' = a
    /\ ScrollOp("setPage")
    /\ UNCHANGED <<termH, view, heap, captured>>

\* Steps that ask something of the subject.
QueryOp(name) ==
    /\ lastOp' = [name |-> name, key |-> "", tab |-> curTab]
    /\ prev' = Snapshot
    /\ UNCHANGED <<tabVars, scrollVars, subject>>

HasContent ==
    /\ result' = [result EXCEPT !.bool = hasContent(subject)]
    /\ QueryOp("hasContent")

PageSize ==
    /\ subject.hasPage
    /\ result' = [result EXCEPT !.int = Size(subject.page)]
    /\ QueryOp("size")

----------------------------------------------------------------------------
(* Specifications *)

NoBar == [label |-> "", text |-> ""]

\* A structs.Page{} at every address, the view at the top left.
ScrollAtRest ==
    /\ termH = 0
    /\ view = [row |-> 0, col |-> 0]
    /\ heap = [a \in PageAddrs |-> [Row |-> 0, Column |-> 0]]
    /\ pagePtr = 0
    /\ captured = [a \in PageAddrs |-> NotSaved]

NoResult == [bool |-> FALSE, int |-> 0]

NoQuery ==
    /\ subject = [hasPage |-> TRUE, hasView |-> TRUE, page |-> ZeroPage]
    /\ result = NoResult

\* Key handling: every tab shows some page, nothing is highlighted yet.
Init ==
    /\ tabs \in [Tabs -> {[makeNewTab EXCEPT !.page = d] : d \in Docs}]
    /\ curTab = 0
    /\ bottomBar = NoBar
    /\ followed = <<>>
    /\ panicked = FALSE
    /\ lastOp = NoOp
    /\ pushLog = NoPushes
    /\ leftBar = [t \in Tabs |-> NotLeft]
    /\ ScrollAtRest
    /\ NoQuery
    /\ prev = Snapshot

Next ==
    \/ \E key \in Keys : KeyEvent(key)
    \/ \E to \in Tabs : SwitchTab(to)

Spec == Init /\ [][Next]_vars

\* Region ids that are no integer: strconv.Atoi gives 0 for them.
BadIds == {<<"x">>, <<"1", "a">>, <<"-">>}

\* "99999999999999999999"
Nines == [k \in 1..20 |-> "9"]

\* Region ids of an integer beyond int: strconv.Atoi gives MaxInt64 and
\* MinInt64 for them.
RangeIds == {Nines, <<"-">> \o Nines}

\* Key handling when the highlighted region is not a link: the tab in focus
\* shows some page and a region with an id that is no index is highlighted.
InitIds ==
    /\ curTab = 0
    /\ \E d \in Docs, id \in BadIds \cup RangeIds :
           tabs = [i \in Tabs |->
                      IF i = curTab
                      THEN [makeNewTab EXCEPT !.page = d, !.highlights = Highlight({id})]
                      ELSE makeNewTab]
    /\ bottomBar = NoBar
    /\ followed = <<>>
    /\ panicked = FALSE
    /\ lastOp = NoOp
    /\ pushLog = NoPushes
    /\ leftBar = [t \in Tabs |-> NotLeft]
    /\ ScrollAtRest
    /\ NoQuery
    /\ prev = Snapshot

NextIds == \E key \in Keys : KeyEvent(key)

SpecIds == InitIds /\ [][NextIds]_vars

\* Key handling with the redraw that follows each event: the tab in focus
\* shows some page, nothing is highlighted yet.
InitDraw ==
    /\ curTab = 0
    /\ \E d \in Docs :
           tabs = [i \in Tabs |-> IF i = curTab THEN [makeNewTab EXCEPT !.page = d]
                                              ELSE makeNewTab]
    /\ bottomBar = NoBar
    /\ followed = <<>>
    /\ panicked = FALSE
    /\ lastOp = NoOp
    /\ pushLog = NoPushes
    /\ leftBar = [t \in Tabs |-> NotLeft]
    /\ ScrollAtRest
    /\ NoQuery
    /\ prev = Snapshot

NextDraw ==
    \/ \E key \in Keys : KeyEvent(key)
    \/ Redraw

SpecDraw == InitDraw /\ [][NextDraw]_vars

TabsAtRest ==
    /\ tabs = [i \in Tabs |-> makeNewTab]
    /\ curTab = 0
    /\ bottomBar = NoBar
    /\ followed = <<>>
    /\ panicked = FALSE
    /\ pushLog = NoPushes
    /\ leftBar = [t \in Tabs |-> NotLeft]

\* Paging: any terminal height, the view anywhere.
InitPaging ==
    /\ TabsAtRest
    /\ termH \in 0..MaxTermH
    /\ view \in [row : 0..MaxRow, col : 0..MaxCol]
    /\ heap = [a \in PageAddrs |-> [Row |-> 0, Column |-> 0]]
    /\ pagePtr = 0
    /\ captured = [a \in PageAddrs |-> NotSaved]
    /\ NoQuery
    /\ lastOp = NoOp
    /\ prev = Snapshot

NextPaging == PageUp \/ PageDown

SpecPaging == InitPaging /\ [][NextPaging]_vars

\* Saving and restoring the scroll offset.
InitScroll ==
    /\ TabsAtRest
    /\ ScrollAtRest
    /\ NoQuery
    /\ lastOp = NoOp
    /\ prev = Snapshot

NextScroll ==
    \/ SaveScroll
    \/ ApplyScroll
    \/ \E row \in 0..MaxRow, col \in 0..MaxCol : UserScroll(row, col)
    \/ \E a \in PageAddrs : SetPage(a)

SpecScroll == InitScroll /\ [][NextScroll]_vars

\* The pages the queries are made of.
TestPages ==
    [Url          : {"", "u", "about", "about:newtab", "gemini://a"},
     Raw          : {"", "abc"},
     Content      : {"", "defgh"},
     Selected     : {"", "yz"},
     SelectedID   : {"", "0"},
     Links        : {<<>>, <<"x", "yz">>},
     Favicon      : {"", "fav"},
     RawMediatype : {""}]

\* Queries: a tab with a view and with any page, or none.
InitQuery ==
    /\ TabsAtRest
    /\ ScrollAtRest
    /\ subject \in {[hasPage |-> TRUE, hasView |-> TRUE, page |-> p] : p \in TestPages}
                   \cup {[hasPage |-> FALSE, hasView |-> TRUE, page |-> ZeroPage]}
    /\ result = NoResult
    /\ lastOp = NoOp
    /\ prev = Snapshot

NextQuery == HasContent \/ PageSize

SpecQuery == InitQuery /\ [][NextQuery]_vars

\* History: the tab in focus, as makeNewTab leaves it.
InitHistory ==
    /\ tabs = [i \in Tabs |-> makeNewTab]
    /\ curTab \in Tabs
    /\ bottomBar = NoBar
    /\ followed = <<>>
    /\ panicked = FALSE
    /\ lastOp = NoOp
    /\ pushLog = NoPushes
    /\ leftBar = [t \in Tabs |-> NotLeft]
    /\ ScrollAtRest
    /\ NoQuery
    /\ prev = Snapshot

NextHistory ==
    \/ \E u \in URLs : PushURL(u)
    \/ Back
    \/ Forward

SpecHistory == InitHistory /\ [][NextHistory]_vars

----------------------------------------------------------------------------
(* Vocabulary of the properties *)

\* The last step handled key k.
KeyDone(k) == lastOp.name = "key" /\ lastOp.key = k

\* The tab the last step acted on, as it is now.
Acted == tabs[lastOp.tab]

\* The link selector of tab t: Off, or Selecting(i).
Off(t) == t.highlights = {}

Selecting(t, i) == InRange(t.page.Links, i) /\ t.highlights = {Itoa(i)}

LinkIndexes == 0..(MaxLinks - 1)

----------------------------------------------------------------------------
(* History *)

\* C1: for a newly made tab, after n >= 1 pushes with no back or forward
\* move in between, urls is the pushed URLs in push order and
\* pos = len(urls) - 1.
C1_LinearPushes ==
    (~pushLog.moved /\ Len(pushLog.pushed) >= 1)
        => /\ tabs[curTab].history.urls = pushLog.pushed
           /\ tabs[curTab].history.pos = Len(tabs[curTab].history.urls) - 1

\* C2: a push of u at a position p before the last entry keeps the entries
\* 0..p, discards the rest, appends u and leaves pos = p + 1 = len(urls) - 1.
C2_PushTruncates ==
    LET old == prev.t.history
        new == Acted.history
    IN  (lastOp.name = "push" /\ 0 <= old.pos /\ old.pos < Len(old.urls) - 1)
            => /\ new.urls = Append(SubSeq(old.urls, 1, old.pos + 1), lastOp.key)
               /\ new.pos = old.pos + 1
               /\ new.pos = Len(new.urls) - 1

\* [A,B,C] at position 0, then push(D): [A,D] at position 1.
C2_Witness ==
    /\ lastOp.name = "push"
    /\ lastOp.key = "D"
    /\ prev.t.history = [urls |-> <<"A", "B", "C">>, pos |-> 0]
    /\ Acted.history = [urls |-> <<"A", "D">>, pos |-> 1]

\* C3: whenever urls is non-empty, pos is a valid index into it.
C3_PosIsIndex ==
    \A i \in Tabs :
        tabs[i].history.urls # <<>>
            => /\ 0 <= tabs[i].history.pos
               /\ tabs[i].history.pos <= Len(tabs[i].history.urls) - 1

----------------------------------------------------------------------------
(* Link selector *)

\* C4: Enter with nothing highlighted and a page without links is a no-op:
\* the handler does not fail, and the highlights, the mode, selected,
\* selectedID and the status bar are as they were.
C4_EnterWithoutLinks ==
    (KeyDone(KeyEnter) /\ Off(prev.t) /\ Len(prev.t.page.Links) = 0)
        => /\ ~panicked
           /\ Acted.highlights = prev.t.highlights
           /\ Acted.mode = prev.t.mode
           /\ Acted.selected = prev.t.selected
           /\ Acted.selectedID = prev.t.selectedID
           /\ bottomBar = prev.bar

\* C5: Enter in Selecting(i) leaves nothing highlighted, so that the Enter
\* right after it (same page) starts at Selecting(0) and follows no link.
C5_EnterEndsOff ==
    [][ /\ ( /\ lastOp'.name = "key"
             /\ lastOp'.key = KeyEnter
             /\ \E i \in LinkIndexes : Selecting(prev'.t, i) )
            => tabs'[lastOp'.tab].highlights = {}
        /\ ( /\ KeyDone(KeyEnter)
             /\ followed # <<>>
             /\ lastOp'.name = "key"
             /\ lastOp'.key = KeyEnter
             /\ lastOp'.tab = lastOp.tab )
            => /\ followed' = <<>>
               /\ tabs'[lastOp'.tab].highlights = {Itoa(0)}
      ]_vars

\* C6: Enter in Selecting(i) makes exactly one followLink call, for the tab
\* in focus, with the page's URL as base and links[i] as target, and the
\* tab's mode is modeOff when the call is made.
C6_EnterFollows ==
    \A i \in LinkIndexes :
        (KeyDone(KeyEnter) /\ Selecting(prev.t, i))
            => followed = << [tab    |-> curTab,
                              base   |-> prev.t.page.Url,
                              target |-> At(prev.t.page.Links, i),
                              mode   |-> modeOff] >>

C6_Witness ==
    /\ KeyDone(KeyEnter)
    /\ Selecting(prev.t, 2)
    /\ curTab = 1
    /\ Len(followed) = 1
    /\ followed[1].target = LinkTarget(2)

\* C7: after a key event, selectedID is the id of the highlighted link and
\* selected is that link's target; selectedID is "" when nothing is
\* highlighted.
C7_SelectedIsHighlighted ==
    (lastOp.name = "key" /\ ~panicked)
        => IF Off(Acted)
           THEN Acted.selectedID = EmptyID
           ELSE /\ Acted.highlights = {Acted.selectedID}
                /\ InRange64(Acted.page.Links, Atoi(Acted.selectedID))
                /\ Acted.selected = At64(Acted.page.Links, Atoi(Acted.selectedID))

\* C8: with n > 0 links, Tab moves Selecting(i) to Selecting((i+1) mod n) and
\* Backtab to Selecting((i-1+n) mod n); the bar text is the new link's
\* target and the index stays in [0, n).
C8_TabCycles ==
    \A i \in LinkIndexes :
        (lastOp.name = "key" /\ lastOp.key \in {KeyTab, KeyBacktab} /\ Selecting(prev.t, i))
            => LET n == Len(prev.t.page.Links)
                   j == IF lastOp.key = KeyTab THEN (i + 1) % n ELSE (i - 1 + n) % n
               IN  /\ ~panicked
                   /\ Selecting(Acted, j)
                   /\ bottomBar.text = At(Acted.page.Links, j)

\* Both wraparounds with three links: 2 -Tab-> 0 and 0 -Backtab-> 2.
C8_Witness ==
    /\ Len(Acted.page.Links) = 3
    /\ \/ KeyDone(KeyTab) /\ Selecting(prev.t, 2) /\ Selecting(Acted, 0)
       \/ KeyDone(KeyBacktab) /\ Selecting(prev.t, 0) /\ Selecting(Acted, 2)
    /\ bottomBar.text \in {LinkTarget(0), LinkTarget(2)}

\* C9: Enter with nothing highlighted and at least one link highlights
\* region "0", shows links[0] in the bar, records selectedID = "0" and
\* follows no link.
C9_EnterStarts ==
    (KeyDone(KeyEnter) /\ Off(prev.t) /\ Len(prev.t.page.Links) >= 1)
        => /\ ~panicked
           /\ Acted.highlights = {<<"0">>}
           /\ bottomBar.text = At(Acted.page.Links, 0)
           /\ Acted.selectedID = <<"0">>
           /\ followed = <<>>

C9_Witness ==
    /\ KeyDone(KeyEnter)
    /\ Off(prev.t)
    /\ Len(prev.t.page.Links) >= 1
    /\ Selecting(Acted, 0)
    /\ bottomBar.label = LinkLabel

\* C10: Esc in Selecting(i) leaves nothing highlighted, the mode modeOff,
\* the bar label empty and the bar text the page's own URL, and follows no
\* link.
C10_EscStops ==
    \A i \in LinkIndexes :
        (KeyDone(KeyEsc) /\ Selecting(prev.t, i))
            => /\ Off(Acted)
               /\ Acted.mode = modeOff
               /\ bottomBar.label = ""
               /\ bottomBar.text = Acted.page.Url
               /\ followed = <<>>

C10_Witness ==
    /\ KeyDone(KeyEsc)
    /\ Selecting(prev.t, 1)
    /\ prev.bar.label = LinkLabel
    /\ Off(Acted)
    /\ bottomBar = [label |-> "", text |-> Acted.page.Url]

----------------------------------------------------------------------------
(* Link selector, continued *)

\* C11: no key makes the handler fail: a highlighted id that does not parse
\* as an integer counts as index 0 (Enter follows links[0], Tab and Backtab
\* move relative to 0) and the handler completes, for every key and every
\* link count.
C11_BadIdIsZero ==
    \A id \in BadIds \cup RangeIds :
        (lastOp.name = "key" /\ prev.t.highlights = {id})
            => LET links == prev.t.page.Links
                   n     == Len(links)
               IN  /\ ~panicked
                   /\ (lastOp.key = KeyEnter /\ n > 0)
                        => /\ Len(followed) = 1
                           /\ followed[1].target = At(links, 0)
                   /\ (lastOp.key = KeyTab /\ n > 0)
                        => Acted.highlights = {Itoa(1 % n)}
                   /\ (lastOp.key = KeyBacktab /\ n > 0)
                        => Acted.highlights = {Itoa((n - 1) % n)}

\* C12: in Selecting(i) a key other than Enter, Esc, Tab and Backtab
\* changes nothing: highlight, mode, selected, selectedID, the bar and the
\* history stay as they were, no link is followed, and the view is neither
\* moved nor asked to scroll.
C12_OtherKeyAbsorbed ==
    \A i \in LinkIndexes :
        (KeyDone(KeyOther) /\ Selecting(prev.t, i))
            => /\ ~panicked
               /\ Selecting(Acted, i)
               /\ Acted.highlights = prev.t.highlights
               /\ Acted.mode = prev.t.mode
               /\ Acted.selected = prev.t.selected
               /\ Acted.selectedID = prev.t.selectedID
               /\ Acted.history = prev.t.history
               /\ bottomBar = prev.bar
               /\ followed = <<>>
               /\ Acted.scrollToHighlights = prev.t.scrollToHighlights
               /\ view = prev.view

\* The key comes after the view was redrawn somewhere down the page.
C12_Witness ==
    /\ KeyDone(KeyOther)
    /\ Selecting(prev.t, 1)
    /\ Selecting(Acted, 1)
    /\ bottomBar = [label |-> LinkLabel, text |-> LinkTarget(1)]
    /\ ~Acted.scrollToHighlights
    /\ view.row > 0

\* C13: with saveBottomBar on the tab that loses focus and applyBottomBar
\* on the one that gains it, a tab that regains focus shows the label and
\* text the bar had when that tab was last left.
C13_BarRestored ==
    (lastOp.name = "switch" /\ prev.left[lastOp.tab] # NotLeft)
        => bottomBar = prev.left[lastOp.tab]

\* The tab left with a link in the bar gets it back, whatever the other tab
\* put there in between.
C13_Witness ==
    /\ lastOp.name = "switch"
    /\ prev.left[lastOp.tab] # NotLeft
    /\ bottomBar.label = LinkLabel
    /\ bottomBar.text = LinkTarget(1)
    /\ prev.bar.label = ""
    /\ prev.bar.text # bottomBar.text

\* C18: when the handler returns, on any way out, barLabel and barText of
\* the tab it ran for are the label and text of the shared bar.
C18_BarSavedOnReturn ==
    (lastOp.name = "key" /\ ~panicked)
        => /\ Acted.barLabel = bottomBar.label
           /\ Acted.barText = bottomBar.text

\* The return after followLink, which changed the label.
C18_Witness ==
    /\ KeyDone(KeyEnter)
    /\ followed # <<>>
    /\ prev.t.barLabel = LinkLabel
    /\ Acted.barLabel = ""
    /\ bottomBar.label = ""

\* C19: a tab's mode is modeLinkSelect exactly when a link is highlighted,
\* and modeOff exactly when nothing is.
C19_ModeIsSelector ==
    ~panicked
        => \A i \in Tabs :
               /\ (tabs[i].mode = modeLinkSelect) <=> ~Off(tabs[i])
               /\ (tabs[i].mode = modeOff) <=> Off(tabs[i])

\* C20: the handler works on the tab that was in focus when the key came:
\* every other tab is as it was.
C20_OtherTabsUntouched ==
    lastOp.name = "key"
        => \A o \in Tabs \ {lastOp.tab} : tabs[o] = prev.others[o]

\* A link followed in tab 1 while tab 0 has a selection and a saved bar.
C20_Witness ==
    /\ KeyDone(KeyEnter)
    /\ lastOp.tab = 1
    /\ followed # <<>>
    /\ Selecting(tabs[0], 1)
    /\ tabs[0].barLabel = LinkLabel
    /\ tabs[0] = prev.others[0]

----------------------------------------------------------------------------
(* Scrolling *)

\* C14: saveScroll writes the view's (row, column) into the Page the tab and
\* the cache both hold, so both read the saved values; applyScroll on that
\* Page, whatever happened to the view in between, puts the view at the
\* (row, column) its last saveScroll read.
C14_ScrollRoundTrip ==
    /\ lastOp.name = "saveScroll"
         => /\ heap[pagePtr] = [Row |-> view.row, Column |-> view.col]
            /\ cachedPage(heap, pagePtr) = [Row |-> view.row, Column |-> view.col]
    /\ (lastOp.name = "applyScroll" /\ captured[pagePtr].saved)
         => view = [row |-> captured[pagePtr].row, col |-> captured[pagePtr].col]

\* Saved at (2, 1), scrolled elsewhere, restored to (2, 1).
C14_Witness ==
    /\ lastOp.name = "applyScroll"
    /\ captured[pagePtr] = [saved |-> TRUE, row |-> 2, col |-> 1]
    /\ prev.view # [row |-> 2, col |-> 1]
    /\ view = [row |-> 2, col |-> 1]

\* C15: for every terminal height h >= 0, pageDown asks for row
\* + floor(0.75 * h) and pageUp for row - floor(0.75 * h), the column as it
\* was.
C15_PageIsThreeQuarters ==
    /\ lastOp.name = "pageDown"
         => view = [row |-> prev.view.row + ((3 * termH) \div 4), col |-> prev.view.col]
    /\ lastOp.name = "pageUp"
         => view = [row |-> prev.view.row - ((3 * termH) \div 4), col |-> prev.view.col]

----------------------------------------------------------------------------
(* Queries *)

AboutUrls == {"about:newtab"}

\* C16: hasContent is true exactly when the page is there, its URL is not
\* empty and does not start with "about:", and its content is not empty; it
\* is false for an empty URL and for an "about:" URL whatever the content.
C16_HasContent ==
    lastOp.name = "hasContent"
        => /\ result.bool = ( /\ subject.hasPage
                              /\ subject.page.Url \notin ({""} \cup AboutUrls)
                              /\ subject.page.Content # "" )
           /\ (subject.page.Url \in ({""} \cup AboutUrls)) => (result.bool = FALSE)

\* An "about:" page with content has none.
C16_Witness ==
    /\ lastOp.name = "hasContent"
    /\ subject.hasPage
    /\ subject.page.Url = "about:newtab"
    /\ subject.page.Content = "defgh"
    /\ result.bool = FALSE

RECURSIVE Joined(_)
Joined(strs) == IF strs = <<>> THEN "" ELSE Head(strs) \o Joined(Tail(strs))

\* C17: Size is the length of Raw, Content, URL, Selected, SelectedID and of
\* every link together, of nothing else, and changes no field (12 for
\* "abc", "defgh", "u", no selection and links "x", "yz").
C17_Size ==
    lastOp.name = "size"
        => LET p == subject.page
           IN  /\ result.int = Len(p.Raw \o p.Content \o p.Url \o p.Selected
                                   \o p.SelectedID \o Joined(p.Links))
               /\ subject = prev.subject
               /\ ( /\ p.Raw = "abc" /\ p.Content = "defgh" /\ p.Url = "u"
                    /\ p.Selected = "" /\ p.SelectedID = ""
                    /\ p.Links = <<"x", "yz">> )
                    => result.int = 12

C17_Witness ==
    /\ lastOp.name = "size"
    /\ subject.page = [ZeroPage EXCEPT !.Raw = "abc", !.Content = "defgh", !.Url = "u",
                                       !.Links = <<"x", "yz">>, !.Favicon = "fav"]
    /\ result.int = 12

====
